---- MODULE Spec2Model ----
(***************************************************************************)
(* Model of src/blockchain.py: the Blockchain class (chain, current_data,  *)
(* new_block, new_data, hash, last_block, proof_of_authority, valid_proof) *)
(* and the Flask handlers mine and new_transaction that call it.           *)
(*                                                                         *)
(* Python lists are objects: a block's 'data' is a reference to the list   *)
(* that was the pending pool when the block was built (line 35), and       *)
(* line 39 rebinds self.current_data to a fresh list.  The model keeps the *)
(* list objects in `heap` and stores references (positions in heap).       *)
(*                                                                         *)
(* SHA-256 is not computed.  hash(block) is modelled by the canonical      *)
(* serialisation it digests (collision-free), and the "0000"-prefix test   *)
(* of valid_proof by membership of the guess text in `zeroPrefixed`, an    *)
(* arbitrary set fixed at start-up.                                        *)
(***************************************************************************)
EXTENDS Integers, Sequences, FiniteSets, TLC

VARIABLES chain, current_data, heap, now, zeroPrefixed, ret, th, calls

vars == <<chain, current_data, heap, now, zeroPrefixed, ret, th, calls>>

\* ---------------------------------------------------------------- bounds
MaxChain == 3
MaxPool == 2
MaxTime == 1
MaxProof == 0
MaxCalls == 2
MaxCandidate == 1

\* ------------------------------------------------------------- constants
GenesisProof == 100
GenesisPreviousHash == <<"1">>
None == <<>>

Threads == {1, 2, 3}

\* ---------------------------------------------------------------- text
RECURSIVE Str(_)
Str(n) == IF n < 10 THEN <<n>> ELSE Str(n \div 10) \o <<n % 10>>

Guess(last_proof, proof) == Str(last_proof) \o Str(proof)

Proofs == 0..MaxProof
LastProofs == {GenesisProof} \cup Proofs
GuessDomain == {Guess(lp, p) : lp \in LastProofs, p \in Proofs}

\* ------------------------------------------------------- proof engine
ValidProof(last_proof, proof) == Guess(last_proof, proof) \in zeroPrefixed

\* The while loop of proof_of_authority has no bound; the model stops the search
\* after candidate MaxProof and reports NoProof, meaning the call has not returned.
NoProof == 0 - 1

RECURSIVE ProofSearch(_, _)
ProofSearch(last_proof, proof) ==
    IF ValidProof(last_proof, proof) THEN proof
    ELSE IF proof >= MaxProof THEN NoProof
    ELSE ProofSearch(last_proof, proof + 1)

ProofOfAuthority(last_proof) == ProofSearch(last_proof, 0)

\* ------------------------------------------------------------- hashing
\* Mutant: the timestamp is left out of the serialised block.
JsonDumpsNoTimestamp(block, hp) ==
    <<hp[block.data], block.index, block.previous_hash, block.proof>>

JsonDumps(block, hp) ==
    <<hp[block.data], block.index, block.previous_hash, block.proof, block.timestamp>>

Hash(block, hp) == <<"sha256">> \o JsonDumps(block, hp)

LastBlock == chain[Len(chain)]

\* ------------------------------------------------------------- records
Required ==
    <<"users", "dh_parameters", "server_public_key", "receiver_public_key",
      "sender_public_key">>

RequiredPost ==
    <<"users", "data", "dh_parameters", "server_public_key", "receiver_public_key",
      "sender_public_key">>

Get(d, k, default) == IF k \in DOMAIN d THEN d[k] ELSE default

MissingKeys(d, keys) == {i \in 1..Len(keys) : keys[i] \notin DOMAIN d}

NewRecord(session_data) ==
    [users |-> session_data["users"],
     data |-> Get(session_data, "data", <<>>),
     dh_parameters |-> session_data["dh_parameters"],
     server_public_key |-> session_data["server_public_key"],
     receiver_public_key |-> session_data["receiver_public_key"],
     sender_public_key |-> session_data["sender_public_key"],
     sender_zkp_status |-> Get(session_data, "sender_zkp_status", "Pending"),
     receiver_zkp_status |-> Get(session_data, "receiver_zkp_status", "Pending"),
     sender_balance |-> Get(session_data, "sender_balance", 0),
     receiver_balance |-> Get(session_data, "receiver_balance", 0),
     authentification |-> Get(session_data, "authentification", "Pending"),
     Sufficient_amount |-> Get(session_data, "Sufficient_amount", "Pending"),
     sender_wallet_hash |-> Get(session_data, "sender_wallet_hash", ""),
     receiver_wallet_hash |-> Get(session_data, "receiver_wallet_hash", "")]

Reward ==
    [users |-> "0", data |-> <<>>, dh_parameters |-> "", server_public_key |-> "",
     receiver_public_key |-> "", sender_public_key |-> "",
     sender_zkp_status |-> "Completed", receiver_zkp_status |-> "Completed",
     sender_balance |-> 0, receiver_balance |-> 0,
     authentification |-> "Completed", Sufficient_amount |-> "Completed",
     sender_wallet_hash |-> "", receiver_wallet_hash |-> ""]

\* Request bodies a client may send.
Without(d, k) == [x \in (DOMAIN d) \ {k} |-> d[x]]

Minimal ==
    [users |-> "alice,bob", dh_parameters |-> "p", server_public_key |-> "s",
     receiver_public_key |-> "r", sender_public_key |-> "a"]

Complete ==
    [users |-> "carol,dan", data |-> <<"m">>, dh_parameters |-> "p",
     server_public_key |-> "s", receiver_public_key |-> "r",
     sender_public_key |-> "c", sender_zkp_status |-> "Completed",
     sender_balance |-> 5]

SessionInputs ==
    {Minimal, Complete} \cup {Without(Complete, Required[i]) : i \in 1..Len(Required)}

\* ------------------------------------------------------------ outcomes
Outcome(op, out, val) == [op |-> op, out |-> out, val |-> val]

Idle ==
    [pc |-> "idle", op |-> "none", session_data |-> <<>>, lst |-> 0, proof |-> 0,
     index |-> 0, timestamp |-> 0, data |-> 0, last |-> 0, previous_hash |-> None,
     last_proof |-> 0]

\* ------------------------------------------------------------ new_block
Block(index, timestamp, data, proof, previous_hash) ==
    [index |-> index, timestamp |-> timestamp, data |-> data, proof |-> proof,
     previous_hash |-> previous_hash]

\* Mutant: the pool is emptied in place (self.current_data.clear()).
ClearPoolInPlace(hp, cd) == [heap |-> [hp EXCEPT ![cd] = <<>>], current_data |-> cd]

\* self.current_data = []: a fresh list object, bound to the attribute.
ClearPool(hp, cd) == [heap |-> Append(hp, <<>>), current_data |-> Len(hp) + 1]

\* Mutant: the previous hash is taken from the first block, not the last.
NewBlockHashFirst(ch, cd, hp, t, proof, previous_hash) ==
    LET block == Block(Len(ch) + 1, t, cd, proof,
                       IF previous_hash # None THEN previous_hash
                       ELSE Hash(ch[1], hp))
        cleared == ClearPool(hp, cd)
    IN  [chain |-> Append(ch, block),
         current_data |-> cleared.current_data,
         heap |-> cleared.heap,
         block |-> block]

\* Mutant: the index is the 0-based position.
NewBlockIndexZero(ch, cd, hp, t, proof, previous_hash) ==
    LET block == Block(Len(ch), t, cd, proof,
                       IF previous_hash # None THEN previous_hash
                       ELSE Hash(ch[Len(ch)], hp))
        cleared == ClearPool(hp, cd)
    IN  [chain |-> Append(ch, block),
         current_data |-> cleared.current_data,
         heap |-> cleared.heap,
         block |-> block]

NewBlock(ch, cd, hp, t, proof, previous_hash) ==
    LET block == Block(Len(ch) + 1, t, cd, proof,
                       IF previous_hash # None THEN previous_hash
                       ELSE Hash(ch[Len(ch)], hp))
        cleared == ClearPool(hp, cd)
    IN  [chain |-> Append(ch, block),
         current_data |-> cleared.current_data,
         heap |-> cleared.heap,
         block |-> block]

\* ------------------------------------------------------------- new_data
\* Mutant: the record is inserted at the front of the pool.
NewDataFront(hp, cd, session_data) ==
    [hp EXCEPT ![cd] = <<NewRecord(session_data)>> \o @]

NewData(hp, cd, session_data) == [hp EXCEPT ![cd] = Append(@, NewRecord(session_data))]

\* --------------------------------------------------------------- __init__
\* Mutant: the genesis block is built like any other, without the sentinel.
GenesisNoSentinel == NewBlock(<<>>, 1, << <<>> >>, 0, GenesisProof, <<"0">>)

Genesis == NewBlock(<<>>, 1, << <<>> >>, 0, GenesisProof, GenesisPreviousHash)

Init ==
    /\ chain = Genesis.chain
    /\ current_data = Genesis.current_data
    /\ heap = Genesis.heap
    /\ now = 0
    /\ zeroPrefixed \in SUBSET GuessDomain
    /\ ret = Outcome("init", "ok", 0)
    /\ th = [t \in Threads |-> Idle]
    /\ calls = 0

\* ------------------------------------------------- operations, atomic
Tick ==
    /\ now < MaxTime
    /\ now' = now + 1
    /\ UNCHANGED <<chain, current_data, heap, zeroPrefixed, ret, th, calls>>

\* Mutant: required keys are read with a default, like the optional ones.
SubmitRecordLenient(session_data) ==
    /\ Len(heap[current_data]) < MaxPool
    /\ heap' = [heap EXCEPT ![current_data] =
                    Append(@, [k \in DOMAIN Reward |-> Get(session_data, k, Reward[k])])]
    /\ ret' = Outcome("new_data", "ok", LastBlock.index + 1)
    /\ UNCHANGED <<chain, current_data, now, zeroPrefixed, th, calls>>

\* Mutant: new_data returns the index of the last block, not the next one.
SubmitRecordStale(session_data) ==
    /\ Len(heap[current_data]) < MaxPool
    /\ IF MissingKeys(session_data, Required) # {}
       THEN /\ ret' = Outcome("new_data", "KeyError", 0)
            /\ UNCHANGED heap
       ELSE /\ heap' = NewData(heap, current_data, session_data)
            /\ ret' = Outcome("new_data", "ok", LastBlock.index)
    /\ UNCHANGED <<chain, current_data, now, zeroPrefixed, th, calls>>

SubmitRecord(session_data) ==
    /\ Len(heap[current_data]) < MaxPool
    /\ IF MissingKeys(session_data, Required) # {}
       THEN /\ ret' = Outcome("new_data", "KeyError", 0)
            /\ UNCHANGED heap
       ELSE /\ heap' = NewData(heap, current_data, session_data)
            /\ ret' = Outcome("new_data", "ok", LastBlock.index + 1)
    /\ UNCHANGED <<chain, current_data, now, zeroPrefixed, th, calls>>

NewTransaction(values) ==
    /\ Len(heap[current_data]) < MaxPool
    /\ IF MissingKeys(values, RequiredPost) # {}
       THEN /\ ret' = Outcome("new_transaction", "400", 0)
            /\ UNCHANGED heap
       ELSE /\ heap' = NewData(heap, current_data, values)
            /\ ret' = Outcome("new_transaction", "201", LastBlock.index + 1)
    /\ UNCHANGED <<chain, current_data, now, zeroPrefixed, th, calls>>

\* Mutant: new_block validates the proof and rejects an invalid one.
SealBlockChecked(proof) ==
    /\ Len(chain) < MaxChain
    /\ IF ValidProof(LastBlock.proof, proof)
       THEN LET r == NewBlock(chain, current_data, heap, now, proof, None)
            IN  /\ chain' = r.chain
                /\ current_data' = r.current_data
                /\ heap' = r.heap
                /\ ret' = Outcome("new_block", "ok", r.block.index)
       ELSE /\ ret' = Outcome("new_block", "InvalidProofError", 0)
            /\ UNCHANGED <<chain, current_data, heap>>
    /\ UNCHANGED <<now, zeroPrefixed, th, calls>>

SealBlock(proof) ==
    /\ Len(chain) < MaxChain
    /\ LET r == NewBlock(chain, current_data, heap, now, proof, None)
       IN  /\ chain' = r.chain
           /\ current_data' = r.current_data
           /\ heap' = r.heap
           /\ ret' = Outcome("new_block", "ok", r.block.index)
    /\ UNCHANGED <<now, zeroPrefixed, th, calls>>

\* Mutant: mine forges the block first and records the reward afterwards.
MineRewardAfter ==
    /\ Len(chain) < MaxChain
    /\ LET last_proof == LastBlock.proof
           proof == ProofOfAuthority(last_proof)
           r == NewBlock(chain, current_data, heap, now, proof, None)
       IN  /\ proof # NoProof
           /\ chain' = r.chain
           /\ current_data' = r.current_data
           /\ heap' = NewData(r.heap, r.current_data, Reward)
           /\ ret' = Outcome("mine", "200", r.block.index)
    /\ UNCHANGED <<now, zeroPrefixed, th, calls>>

\* mine, run without interleaving; it returns only if the search finds a proof.
Mine ==
    /\ Len(chain) < MaxChain
    /\ LET last_proof == LastBlock.proof
           proof == ProofOfAuthority(last_proof)
           hp == NewData(heap, current_data, Reward)
           r == NewBlock(chain, current_data, hp, now, proof, None)
       IN  /\ proof # NoProof
           /\ chain' = r.chain
           /\ current_data' = r.current_data
           /\ heap' = r.heap
           /\ ret' = Outcome("mine", "200", r.block.index)
    /\ UNCHANGED <<now, zeroPrefixed, th, calls>>

\* ------------------------------------------ operations, step by step
\* One action per read or write of blockchain.chain / blockchain.current_data
\* made by a request thread t.  th[t] holds the thread's locals.
Tagged(k) == [Complete EXCEPT !.data = <<k>>]

Return(t, outcome) ==
    /\ ret' = outcome
    /\ th' = [th EXCEPT ![t] = Idle]

\* new_data, line 53: self.current_data is loaded before the record is built.
NdLoad(t, op, session_data) ==
    /\ th[t].pc = "idle"
    /\ th' = [th EXCEPT ![t] = [Idle EXCEPT !.pc = "nd_append", !.op = op,
                                           !.session_data = session_data,
                                           !.lst = current_data]]
    /\ UNCHANGED <<chain, current_data, heap, now, zeroPrefixed, ret>>

SubmitCall(t) ==
    /\ calls < MaxCalls
    /\ calls' = calls + 1
    /\ NdLoad(t, "new_data", Tagged(calls + 1))

SubmitBadCall(t, session_data) ==
    /\ MissingKeys(session_data, Required) # {}
    /\ NdLoad(t, "new_data", session_data)
    /\ UNCHANGED calls

\* new_data, lines 53-68: build the record (KeyError on a missing key), append.
NdAppend(t) ==
    /\ th[t].pc = "nd_append"
    /\ IF MissingKeys(th[t].session_data, Required) # {}
       THEN /\ Return(t, Outcome(th[t].op, "KeyError", 0))
            /\ UNCHANGED heap
       ELSE /\ heap' = NewData(heap, th[t].lst, th[t].session_data)
            /\ th' = [th EXCEPT ![t].pc = "nd_return"]
            /\ UNCHANGED ret
    /\ UNCHANGED <<chain, current_data, now, zeroPrefixed, calls>>

\* new_data, line 69.
NdReturn(t) ==
    /\ th[t].pc = "nd_return"
    /\ IF th[t].op = "mine"
       THEN /\ th' = [th EXCEPT ![t].pc = "nb_index"]
            /\ UNCHANGED ret
       ELSE Return(t, Outcome("new_data", "ok", LastBlock.index + 1))
    /\ UNCHANGED <<chain, current_data, heap, now, zeroPrefixed, calls>>

\* new_block(proof) called directly.
SealCall(t, proof) ==
    /\ th[t].pc = "idle"
    /\ Len(chain) < MaxChain
    /\ th' = [th EXCEPT ![t] = [Idle EXCEPT !.pc = "nb_index", !.op = "new_block",
                                           !.proof = proof]]
    /\ UNCHANGED <<chain, current_data, heap, now, zeroPrefixed, ret, calls>>

\* new_block, line 33.
NbIndex(t) ==
    /\ th[t].pc = "nb_index"
    /\ th' = [th EXCEPT ![t].pc = "nb_time", ![t].index = Len(chain) + 1]
    /\ UNCHANGED <<chain, current_data, heap, now, zeroPrefixed, ret, calls>>

\* new_block, line 34.
NbTime(t) ==
    /\ th[t].pc = "nb_time"
    /\ th' = [th EXCEPT ![t].pc = "nb_data", ![t].timestamp = now]
    /\ UNCHANGED <<chain, current_data, heap, now, zeroPrefixed, ret, calls>>

\* Mutant: the block takes a copy of the pool (list(self.current_data)).
NbDataCopy(t) ==
    /\ th[t].pc = "nb_data"
    /\ heap' = Append(heap, heap[current_data])
    /\ th' = [th EXCEPT ![t].pc = "nb_last", ![t].data = Len(heap) + 1]
    /\ UNCHANGED <<chain, current_data, now, zeroPrefixed, ret, calls>>

\* new_block, line 35: the block keeps a reference to the pool's list.
NbData(t) ==
    /\ th[t].pc = "nb_data"
    /\ th' = [th EXCEPT ![t].pc = "nb_last", ![t].data = current_data]
    /\ UNCHANGED <<chain, current_data, heap, now, zeroPrefixed, ret, calls>>

\* new_block, line 37: self.chain[-1].
NbLast(t) ==
    /\ th[t].pc = "nb_last"
    /\ th' = [th EXCEPT ![t].pc = "nb_hash", ![t].last = Len(chain)]
    /\ UNCHANGED <<chain, current_data, heap, now, zeroPrefixed, ret, calls>>

\* new_block, line 37: self.hash(...) serialises the block as it is now.
NbHash(t) ==
    /\ th[t].pc = "nb_hash"
    /\ th' = [th EXCEPT ![t].pc = "nb_clear",
                        ![t].previous_hash = Hash(chain[th[t].last], heap)]
    /\ UNCHANGED <<chain, current_data, heap, now, zeroPrefixed, ret, calls>>

\* new_block, line 39.
NbClear(t) ==
    /\ th[t].pc = "nb_clear"
    /\ LET cleared == ClearPool(heap, current_data)
       IN  /\ heap' = cleared.heap
           /\ current_data' = cleared.current_data
    /\ th' = [th EXCEPT ![t].pc = "nb_append"]
    /\ UNCHANGED <<chain, now, zeroPrefixed, ret, calls>>

\* new_block, lines 40-41, and the caller's response.
NbAppend(t) ==
    /\ th[t].pc = "nb_append"
    /\ chain' = Append(chain, Block(th[t].index, th[t].timestamp, th[t].data,
                                     th[t].proof, th[t].previous_hash))
    /\ Return(t, Outcome(th[t].op, IF th[t].op = "mine" THEN "200" ELSE "ok",
                         th[t].index))
    /\ UNCHANGED <<current_data, heap, now, zeroPrefixed, calls>>

\* mine, lines 137-139: read the last proof, then search (no shared state).
MineLast(t) ==
    /\ th[t].pc = "idle"
    /\ Len(chain) < MaxChain
    /\ th' = [th EXCEPT ![t] = [Idle EXCEPT !.pc = "mine_search", !.op = "mine",
                                           !.session_data = Reward,
                                           !.last_proof = LastBlock.proof]]
    /\ UNCHANGED <<chain, current_data, heap, now, zeroPrefixed, ret, calls>>

MineSearch(t) ==
    /\ th[t].pc = "mine_search"
    /\ ProofOfAuthority(th[t].last_proof) # NoProof
    /\ th' = [th EXCEPT ![t].pc = "mine_nd",
                        ![t].proof = ProofOfAuthority(th[t].last_proof)]
    /\ UNCHANGED <<chain, current_data, heap, now, zeroPrefixed, ret, calls>>

\* mine, line 142: new_data(reward), line 53.
MineNdLoad(t) ==
    /\ th[t].pc = "mine_nd"
    /\ th' = [th EXCEPT ![t].pc = "nd_append", ![t].lst = current_data]
    /\ UNCHANGED <<chain, current_data, heap, now, zeroPrefixed, ret, calls>>

Sealers == {1}
Submitters == {2, 3}
Miners == {1, 2}

NextSubmitSeal ==
    \/ Tick
    \/ \E t \in Submitters : SubmitCall(t)
    \/ \E t \in Submitters : \E session_data \in SessionInputs : SubmitBadCall(t, session_data)
    \/ \E t \in Submitters : NdAppend(t)
    \/ \E t \in Submitters : NdReturn(t)
    \/ \E t \in Sealers : \E proof \in Proofs : SealCall(t, proof)
    \/ \E t \in Sealers : NbIndex(t)
    \/ \E t \in Sealers : NbTime(t)
    \/ \E t \in Sealers : NbData(t)
    \/ \E t \in Sealers : NbLast(t)
    \/ \E t \in Sealers : NbHash(t)
    \/ \E t \in Sealers : NbClear(t)
    \/ \E t \in Sealers : NbAppend(t)

\* No mining happens here; the digests are SHA-256's own: none of the guess
\* texts of GuessDomain has a digest starting with "0000".
InitSubmitSeal == Init /\ zeroPrefixed = {}

SpecSubmitSeal == InitSubmitSeal /\ [][NextSubmitSeal]_vars

NextMine ==
    \/ Tick
    \/ \E t \in Miners : MineLast(t)
    \/ \E t \in Miners : MineSearch(t)
    \/ \E t \in Miners : MineNdLoad(t)
    \/ \E t \in Miners : NdAppend(t)
    \/ \E t \in Miners : NdReturn(t)
    \/ \E t \in Miners : NbIndex(t)
    \/ \E t \in Miners : NbTime(t)
    \/ \E t \in Miners : NbData(t)
    \/ \E t \in Miners : NbLast(t)
    \/ \E t \in Miners : NbHash(t)
    \/ \E t \in Miners : NbClear(t)
    \/ \E t \in Miners : NbAppend(t)

SpecMine == Init /\ [][NextMine]_vars

\* --------------------------------- proof_of_authority, step by step
\* The search loop of lines 105-108, one iteration per action.  The loop has
\* no bound; the model follows it up to candidate MaxCandidate, where a search
\* that has found nothing stays in the loop.
Searchers == {1}
Candidates == 0..MaxCandidate
SearchInputs == {GenesisProof} \cup Candidates
SearchGuessDomain == {Guess(lp, p) : lp \in SearchInputs, p \in Candidates}

InitSearch ==
    /\ chain = Genesis.chain
    /\ current_data = Genesis.current_data
    /\ heap = Genesis.heap
    /\ now = 0
    /\ zeroPrefixed \in SUBSET SearchGuessDomain
    /\ ret = Outcome("init", "ok", 0)
    /\ th = [t \in Threads |-> Idle]
    /\ calls = 0

\* Mutant: the search starts at candidate 1.
PoaCallFromOne(t, last_proof) ==
    /\ th[t].pc = "idle"
    /\ th' = [th EXCEPT ![t] = [Idle EXCEPT !.pc = "poa_test",
                                           !.op = "proof_of_authority",
                                           !.last_proof = last_proof, !.proof = 1]]
    /\ UNCHANGED <<chain, current_data, heap, now, zeroPrefixed, ret, calls>>

\* proof_of_authority(last_proof) called directly, line 105.
PoaCall(t, last_proof) ==
    /\ th[t].pc = "idle"
    /\ th' = [th EXCEPT ![t] = [Idle EXCEPT !.pc = "poa_test",
                                           !.op = "proof_of_authority",
                                           !.last_proof = last_proof, !.proof = 0]]
    /\ UNCHANGED <<chain, current_data, heap, now, zeroPrefixed, ret, calls>>

\* mine, lines 137-139, entering the search.
MinePoaCall(t) ==
    /\ th[t].pc = "idle"
    /\ Len(chain) < MaxChain
    /\ th' = [th EXCEPT ![t] = [Idle EXCEPT !.pc = "poa_test", !.op = "mine",
                                           !.session_data = Reward,
                                           !.last_proof = LastBlock.proof,
                                           !.proof = 0]]
    /\ UNCHANGED <<chain, current_data, heap, now, zeroPrefixed, ret, calls>>

\* Mutant: the search gives up at the last candidate and returns it.
PoaTestCapped(t) ==
    /\ th[t].pc = "poa_test"
    /\ IF ValidProof(th[t].last_proof, th[t].proof) \/ th[t].proof >= MaxCandidate
       THEN th' = [th EXCEPT ![t].pc = "poa_return"]
       ELSE th' = [th EXCEPT ![t].proof = @ + 1]
    /\ UNCHANGED <<chain, current_data, heap, now, zeroPrefixed, ret, calls>>

\* proof_of_authority, lines 106-107: one test of the loop condition.
PoaTest(t) ==
    /\ th[t].pc = "poa_test"
    /\ IF ValidProof(th[t].last_proof, th[t].proof)
       THEN th' = [th EXCEPT ![t].pc = "poa_return"]
       ELSE /\ th[t].proof < MaxCandidate
            /\ th' = [th EXCEPT ![t].proof = @ + 1]
    /\ UNCHANGED <<chain, current_data, heap, now, zeroPrefixed, ret, calls>>

\* proof_of_authority, line 108.
PoaReturn(t) ==
    /\ th[t].pc = "poa_return"
    /\ IF th[t].op = "mine"
       THEN /\ th' = [th EXCEPT ![t].pc = "mine_nd"]
            /\ UNCHANGED ret
       ELSE Return(t, Outcome("proof_of_authority", "ok", th[t].proof))
    /\ UNCHANGED <<chain, current_data, heap, now, zeroPrefixed, calls>>

SearchStep ==
    \E t \in Searchers :
        \/ PoaTest(t)
        \/ PoaReturn(t)
        \/ MineNdLoad(t)
        \/ NdAppend(t)
        \/ NdReturn(t)
        \/ NbIndex(t)
        \/ NbTime(t)
        \/ NbData(t)
        \/ NbLast(t)
        \/ NbHash(t)
        \/ NbClear(t)
        \/ NbAppend(t)

NextSearch ==
    \/ Tick
    \/ \E t \in Searchers : \E last_proof \in SearchInputs : PoaCall(t, last_proof)
    \/ \E t \in Searchers : MinePoaCall(t)
    \/ \E t \in Searchers : PoaTest(t)
    \/ \E t \in Searchers : PoaReturn(t)
    \/ \E t \in Searchers : MineNdLoad(t)
    \/ \E t \in Searchers : NdAppend(t)
    \/ \E t \in Searchers : NdReturn(t)
    \/ \E t \in Searchers : NbIndex(t)
    \/ \E t \in Searchers : NbTime(t)
    \/ \E t \in Searchers : NbData(t)
    \/ \E t \in Searchers : NbLast(t)
    \/ \E t \in Searchers : NbHash(t)
    \/ \E t \in Searchers : NbClear(t)
    \/ \E t \in Searchers : NbAppend(t)

\* A request thread that can take a step eventually takes it.
SpecSearch == InitSearch /\ [][NextSearch]_vars /\ WF_vars(SearchStep)

\* ------------------------------------------------- overlapping seals
\* Two threads call new_block(proof) while a third submits records.
OverlappingSealers == {1, 2}
PoolWriters == {3}

NextSeals ==
    \/ Tick
    \/ \E t \in PoolWriters : SubmitCall(t)
    \/ \E t \in PoolWriters : NdAppend(t)
    \/ \E t \in PoolWriters : NdReturn(t)
    \/ \E t \in OverlappingSealers : \E proof \in Proofs : SealCall(t, proof)
    \/ \E t \in OverlappingSealers : NbIndex(t)
    \/ \E t \in OverlappingSealers : NbTime(t)
    \/ \E t \in OverlappingSealers : NbData(t)
    \/ \E t \in OverlappingSealers : NbLast(t)
    \/ \E t \in OverlappingSealers : NbHash(t)
    \/ \E t \in OverlappingSealers : NbClear(t)
    \/ \E t \in OverlappingSealers : NbAppend(t)

SpecSeals == InitSubmitSeal /\ [][NextSeals]_vars

Next ==
    \/ Tick
    \/ \E session_data \in SessionInputs : SubmitRecord(session_data)
    \/ \E values \in SessionInputs : NewTransaction(values)
    \/ \E proof \in Proofs : SealBlock(proof)
    \/ Mine

Spec == Init /\ [][Next]_vars

\* ================================================================ claims
Pool == heap[current_data]
DataOf(i) == heap[chain[i].data]

\* C1: under atomic submit / seal / mine operations every block after the
\* genesis block stores the hash of its predecessor as the predecessor is now.
C1_ChainLinked ==
    \A i \in 2..Len(chain) : chain[i].previous_hash = Hash(chain[i - 1], heap)

C1_Witness ==
    /\ Len(chain) = 3
    /\ Len(DataOf(2)) = 2
    /\ chain[3].previous_hash = Hash(chain[2], heap)
    /\ chain[3].previous_hash # Hash(chain[1], heap)

\* C2: block indices are 1-based, contiguous and equal to the position in the
\* chain (position i of the 1-based sequence carries index i).
C2_IndexIsPosition == \A i \in 1..Len(chain) : chain[i].index = i

C2_Witness == Len(chain) = 3 /\ chain[3].index = 3 /\ ret.op = "mine"

\* C3: seal_block(proof) appends a block whose data is the pending pool as it
\* was, in the same order, returns that block, and leaves the pool empty.
C3_SealMovesPool ==
    [][\A proof \in Proofs : SealBlock(proof) =>
          /\ Len(chain') = Len(chain) + 1
          /\ heap'[chain'[Len(chain')].data] = Pool
          /\ heap'[current_data'] = <<>>
          /\ ret'.val = chain'[Len(chain')].index]_vars

C3_Witness ==
    /\ ret.op = "new_block"
    /\ Len(DataOf(Len(chain))) = 2
    /\ DataOf(Len(chain))[1] # DataOf(Len(chain))[2]
    /\ Pool = <<>>

\* C4 (as claimed): seal_block(p) with a proof that fails validation against
\* the last block is rejected with InvalidProofError and changes nothing.
C4_InvalidProofRejected ==
    [][\A proof \in Proofs :
          (SealBlock(proof) /\ ~ValidProof(LastBlock.proof, proof)) =>
              /\ ret'.out = "InvalidProofError"
              /\ UNCHANGED <<chain, current_data, heap>>]_vars

\* C4 (amended): seal_block(p) does not validate p: with a proof that fails
\* validation it still appends a block carrying p and the pool, and empties
\* the pool; no error is reported.
C4_InvalidProofSealed ==
    [][\A proof \in Proofs :
          (SealBlock(proof) /\ ~ValidProof(LastBlock.proof, proof)) =>
              /\ ret'.out = "ok"
              /\ chain' = Append(chain, chain'[Len(chain')])
              /\ chain'[Len(chain')].proof = proof
              /\ heap'[chain'[Len(chain')].data] = Pool
              /\ heap'[current_data'] = <<>>]_vars

C4_Witness ==
    /\ ret.op = "new_block"
    /\ Len(chain) >= 2
    /\ ~ValidProof(chain[Len(chain) - 1].proof, LastBlock.proof)
    /\ Len(DataOf(Len(chain))) > 0

\* C5: a submission lacking a required field fails with an error and leaves
\* the pool and the chain exactly as they were.
C5_FailedSubmitNoChange ==
    [][\A session_data \in SessionInputs :
          (/\ MissingKeys(session_data, Required) # {}
           /\ SubmitRecord(session_data) \/ NewTransaction(session_data)) =>
              /\ ret'.out \in {"KeyError", "400"}
              /\ UNCHANGED <<chain, current_data, heap>>]_vars

C5_Witness == ret.out = "KeyError" /\ Len(Pool) = 1 /\ Len(chain) = 2

\* C9: after construction the chain has one block and the pool is empty; ever
\* after the chain is non-empty, its first block has index 1 and the genesis
\* sentinel as previous_hash.
C9_Genesis ==
    /\ ret.op = "init" => (Len(chain) = 1 /\ Pool = <<>>)
    /\ Len(chain) >= 1
    /\ chain[1].index = 1
    /\ chain[1].previous_hash = GenesisPreviousHash

C9_Witness ==
    /\ Len(chain) = 3
    /\ chain[1].previous_hash = GenesisPreviousHash
    /\ chain[2].previous_hash # GenesisPreviousHash

\* C10: a successful submission appends exactly one normalized record at the
\* end of the pool, keeps the records already there, and leaves the chain
\* (and every block's data) unchanged.
OptionalDefault ==
    [data |-> <<>>, sender_zkp_status |-> "Pending", receiver_zkp_status |-> "Pending",
     sender_balance |-> 0, receiver_balance |-> 0, authentification |-> "Pending",
     Sufficient_amount |-> "Pending", sender_wallet_hash |-> "",
     receiver_wallet_hash |-> ""]

Normalized(rec, session_data) ==
    /\ DOMAIN rec = DOMAIN Reward
    /\ \A k \in DOMAIN rec :
          rec[k] = IF k \in DOMAIN session_data THEN session_data[k] ELSE OptionalDefault[k]

C10_SubmitExtendsPool ==
    [][\A session_data \in SessionInputs :
          (\/ SubmitRecord(session_data) /\ MissingKeys(session_data, Required) = {}
           \/ NewTransaction(session_data) /\ MissingKeys(session_data, RequiredPost) = {}) =>
              /\ current_data' = current_data
              /\ Len(heap'[current_data]) = Len(Pool) + 1
              /\ SubSeq(heap'[current_data], 1, Len(Pool)) = Pool
              /\ Normalized(heap'[current_data][Len(Pool) + 1], session_data)
              /\ chain' = chain
              /\ \A i \in 1..Len(chain) : heap'[chain[i].data] = DataOf(i)]_vars

C10_Witness ==
    /\ ret.op = "new_data"
    /\ ret.out = "ok"
    /\ Len(Pool) = 2
    /\ Pool[1] # Pool[2]
    /\ Pool[2].sender_zkp_status = "Pending"

\* C6 (as claimed): with blocks appended by overlapping mine requests, every
\* non-genesis block's proof is valid against its predecessor's proof.
C6_ProofsValid ==
    \A i \in 2..Len(chain) : ValidProof(chain[i - 1].proof, chain[i].proof)

\* C7: with submissions interleaved with one sealer, every accepted record is
\* in exactly one place (one block's data or the pool) once no seal is in
\* progress.
Count(seq, k) == Cardinality({j \in 1..Len(seq) : seq[j].data = <<k>>})

RECURSIVE CountChain(_, _)
CountChain(i, k) == IF i = 0 THEN 0 ELSE Count(DataOf(i), k) + CountChain(i - 1, k)

Accepted ==
    {k \in 1..calls :
        \A t \in Threads : ~(th[t].pc = "nd_append" /\ th[t].session_data = Tagged(k))}

C7_RecordInOnePlace ==
    (\A t \in Sealers : th[t].pc = "idle") =>
        \A k \in Accepted : CountChain(Len(chain), k) + Count(Pool, k) = 1

C7_Witness ==
    /\ \A t \in Threads : th[t].pc = "idle"
    /\ calls = 2
    /\ Len(chain) = 2
    /\ CountChain(Len(chain), 1) = 1
    /\ Count(Pool, 2) = 1

\* C8 (as claimed): every step keeps the chain a prefix of the new chain and
\* keeps every appended block's fields and data sequence.
C8_AppendOnly ==
    [][/\ Len(chain') >= Len(chain)
       /\ \A i \in 1..Len(chain) :
             /\ chain'[i] = chain[i]
             /\ heap'[chain'[i].data] = DataOf(i)]_vars

\* C11: a successful submission returns the current chain length + 1, and the
\* next sealing operation (seal_block or mine) creates the block with that
\* index, holding the submitted record.
C11_ReturnedIndexIsNextBlock ==
    [][/\ \A session_data \in SessionInputs :
             (\/ SubmitRecord(session_data) /\ MissingKeys(session_data, Required) = {}
              \/ NewTransaction(session_data) /\ MissingKeys(session_data, RequiredPost) = {}) =>
                 ret'.val = Len(chain) + 1
       /\ (/\ ret.out \in {"ok", "201"}
           /\ ret.op \in {"new_data", "new_transaction"}
           /\ Mine \/ \E proof \in Proofs : SealBlock(proof)) =>
              /\ chain'[Len(chain')].index = ret.val
              /\ Len(Pool) > 0
              /\ heap'[chain'[Len(chain')].data][Len(Pool)] = Pool[Len(Pool)]]_vars

C11_Witness ==
    /\ Len(chain) = 3
    /\ ret.op \in {"new_block", "mine"}
    /\ ret.val = 3
    /\ Len(DataOf(3)) > 0
    /\ DataOf(3)[1].users # "0"

\* C12 (as claimed): a submission through the new_transaction handler with the
\* five identity fields and no optional field, not even data, is accepted and
\* appends the record with every default applied.
C12_MinimalPostAccepted ==
    [][NewTransaction(Minimal) =>
          /\ ret'.out = "201"
          /\ Len(heap'[current_data']) = Len(Pool) + 1
          /\ LET rec == heap'[current_data'][Len(Pool) + 1]
             IN  /\ rec.data = <<>>
                 /\ rec.sender_zkp_status = "Pending"
                 /\ rec.receiver_zkp_status = "Pending"
                 /\ rec.authentification = "Pending"
                 /\ rec.Sufficient_amount = "Pending"
                 /\ rec.sender_balance = 0
                 /\ rec.receiver_balance = 0
                 /\ rec.sender_wallet_hash = ""
                 /\ rec.receiver_wallet_hash = ""]_vars

\* C18: a mine request run without interleaving appends exactly one block
\* whose data is the pool as it was followed by one reward record, and leaves
\* the pool empty.
IsReward(rec) ==
    /\ rec.users = "0"
    /\ rec.sender_zkp_status = "Completed"
    /\ rec.receiver_zkp_status = "Completed"
    /\ rec.authentification = "Completed"
    /\ rec.Sufficient_amount = "Completed"

C18_MineSealsPoolAndReward ==
    [][Mine =>
          /\ chain' = Append(chain, chain'[Len(chain')])
          /\ LET data == heap'[chain'[Len(chain')].data]
             IN  /\ Len(data) = Len(Pool) + 1
                 /\ SubSeq(data, 1, Len(Pool)) = Pool
                 /\ IsReward(data[Len(data)])
          /\ heap'[current_data'] = <<>>]_vars

C18_Witness ==
    /\ ret.op = "mine"
    /\ Len(DataOf(Len(chain))) = 3
    /\ IsReward(DataOf(Len(chain))[3])
    /\ ~IsReward(DataOf(Len(chain))[1])
    /\ Pool = <<>>

\* C15: in any reachable chain, changing one field of a block that has a
\* successor (index, timestamp, proof, previous_hash, or one field of one
\* record of its data) makes the successor's previous_hash differ from the
\* recomputed hash of the changed block.
TamperedBlocks(block) ==
    {[block EXCEPT !.index = @ + 1], [block EXCEPT !.timestamp = @ + 1],
     [block EXCEPT !.proof = @ + 1], [block EXCEPT !.previous_hash = <<"x">>]}

TamperedRecord(rec, k) ==
    [rec EXCEPT ![k] = IF k \in {"sender_balance", "receiver_balance"} THEN @ + 1
                       ELSE IF k = "data" THEN Append(@, "x")
                       ELSE "tampered"]

C15_TamperDetected ==
    \A i \in 2..Len(chain) :
        /\ \A block \in TamperedBlocks(chain[i - 1]) :
              chain[i].previous_hash # Hash(block, heap)
        /\ \A j \in 1..Len(DataOf(i - 1)) : \A k \in DOMAIN Reward :
              chain[i].previous_hash #
                  Hash(chain[i - 1],
                       [heap EXCEPT ![chain[i - 1].data][j] = TamperedRecord(@, k)])

C15_Witness ==
    /\ Len(chain) = 3
    /\ Len(DataOf(2)) = 2
    /\ chain[2].timestamp = 1
    /\ chain[3].previous_hash = Hash(chain[2], heap)
    /\ chain[3].previous_hash #
           Hash(chain[2], [heap EXCEPT ![chain[2].data][2] =
                                           TamperedRecord(@, "sender_zkp_status")])

\* C13: proof_of_authority(last_proof) returns a candidate that passes
\* valid_proof, no smaller candidate passes, and the search changes neither
\* the chain nor the pool.
Searching(t) == th[t].pc \in {"poa_test", "poa_return"}

C13_LeastValidProof ==
    /\ [](\A t \in Searchers : th[t].pc = "poa_return" =>
             /\ ValidProof(th[t].last_proof, th[t].proof)
             /\ \A c \in 0..(th[t].proof - 1) : ~ValidProof(th[t].last_proof, c))
    /\ [][\A t \in Searchers : Searching(t) =>
             UNCHANGED <<chain, current_data, heap>>]_vars

C13_Witness ==
    /\ th[1].pc = "poa_return"
    /\ th[1].op = "proof_of_authority"
    /\ th[1].proof = 1
    /\ ~ValidProof(th[1].last_proof, 0)

\* C14: the search returns if and only if some candidate is valid: with a
\* valid candidate ahead it eventually returns; with none it stays in the loop
\* for ever, and the mine request that started it never appends a block.
ValidAhead(t) == \E c \in th[t].proof..MaxCandidate : ValidProof(th[t].last_proof, c)

C14_SearchTermination ==
    /\ \A t \in Searchers :
          (th[t].pc = "poa_test" /\ ValidAhead(t)) ~> (th[t].pc = "poa_return")
    /\ [][\A t \in Searchers :
             (th[t].pc = "poa_test" /\ ~ValidAhead(t)) =>
                 /\ th'[t].pc = "poa_test"
                 /\ chain' = chain]_vars

C14_Witness ==
    /\ Len(chain) = 2
    /\ chain[2].proof = 1
    /\ th[1].pc = "poa_test"
    /\ th[1].op = "mine"
    /\ th[1].proof = MaxCandidate
    /\ ~ValidAhead(1)

\* C16 (as claimed): with two overlapping sealing operations every block
\* still carries its position as index, so no two blocks share an index or a
\* previous_hash.
C16_IndexUnderOverlap ==
    /\ \A i \in 1..Len(chain) : chain[i].index = i
    /\ \A i, j \in 1..Len(chain) :
          i # j => /\ chain[i].index # chain[j].index
                   /\ chain[i].previous_hash # chain[j].previous_hash

\* C17 (as claimed): with two overlapping sealing operations every submitted
\* record is in the data of at most one block of the chain.
C17_SealedOnce ==
    \A k \in 1..calls : CountChain(Len(chain), k) <= 1

====
